---- MODULE Spec2Model ----
(***************************************************************************)
(* A model of BroadcastServer (src/broadcast-server.js): the set of        *)
(* connected clients, the WebSocket -> username map, the message history   *)
(* and the handlers the server registers on every connection.  Every       *)
(* callback runs to completion on the single event-loop thread, so each    *)
(* callback is one atomic action.                                          *)
(***************************************************************************)
EXTENDS Integers, Sequences, FiniteSets, TLC

\* ------------------------------------------------------------------ bounds
MaxSessions == 3        \* WebSocket objects that may ever connect
MaxClock == 1           \* broadcasts in a behaviour of Spec
MaxHistClock == 102     \* broadcasts in a behaviour of SpecHist
MaxWireClock == 2       \* broadcasts in a behaviour of SpecWire

\* ------------------------------------------------------- program constants
HistoryLimit == 100     \* messageHistory.length > 100
ReplayCount == 10       \* messageHistory.slice(-10)

\* ------------------------------------------------------------------ values
Sessions == 1..MaxSessions

\* JavaScript's undefined: a missing property, Map.get of a missing key.
\* No name or content of the model is this string.
Undefined == "<undefined>"

Names == {"alice", "bob", ""}
SpecNames == {"alice", "bob"}
Contents == {"hi"}

\* A value JSON.parse can return: an object with its properties (absent
\* ones Undefined), null, or a number (any property of which is undefined).
JsonObject(type, username, recipient, content) ==
    [json |-> "object", type |-> type, username |-> username,
     recipient |-> recipient, content |-> content]

JsonNull == [json |-> "null"]
JsonNumber == [json |-> "number"]

AuthObjects == {JsonObject("auth", u, Undefined, Undefined) : u \in Names \cup {Undefined}}

PrivateObjects ==
    {JsonObject("private", Undefined, r, c) : r \in Names \cup {Undefined}, c \in Contents}

OtherObjects ==
    {JsonObject(t, Undefined, Undefined, c) : t \in {"broadcast", Undefined},
                                              c \in Contents \cup {Undefined}}

\* A frame as it arrives: text that is valid JSON (with the value it denotes)
\* or text that is not.
JsonText(v) == [valid |-> TRUE, value |-> v]
RawText(t) == [valid |-> FALSE, text |-> t]

\* message.toString(): the text of a frame.  JSON text is told apart by
\* the value it denotes: a number is written 42, null is written null.
frameText(message) ==
    IF ~message.valid THEN message.text
    ELSE IF message.value.json = "number" THEN "42"
    ELSE IF message.value.json = "null" THEN "null"
    ELSE "{...}"

Payloads ==
    {JsonText(v) : v \in AuthObjects \cup PrivateObjects \cup OtherObjects
                          \cup {JsonNull, JsonNumber}}
    \cup {RawText(t) : t \in Contents}

\* ------------------------------------------------------------------- state
VARIABLES
    clients,          \* this.clients: a Set, kept in insertion order
    usernames,        \* this.usernames: a Map from WebSocket to username
    messageHistory,   \* this.messageHistory
    readyState,       \* ws.readyState of every WebSocket
    now,              \* the clock new Date() reads; it ticks at every broadcast
    crashed,          \* an exception left a callback: the process is gone
    sent,             \* the ws.send calls of the last callback, in order
    event,            \* the last callback: its kind, its socket, its frame
    processed,        \* every broadcast message built so far, in order
    firstSent         \* the type of the first envelope sent to every WebSocket

vars == <<clients, usernames, messageHistory, readyState, now, crashed, sent,
          event, processed, firstSent>>

\* ----------------------------------------------------------------- helpers
\* Set.add / Set.delete on an insertion-ordered Set.
SetAdd(set, x) == IF \E i \in 1..Len(set) : set[i] = x THEN set ELSE Append(set, x)
SetDelete(set, x) == SelectSeq(set, LAMBDA y : y # x)
SetHas(set, x) == \E i \in 1..Len(set) : set[i] = x

\* Map.get / Map.set / [...Map.values()]
MapGet(map, key) == IF key \in DOMAIN map THEN map[key] ELSE Undefined
MapSet(map, key, value) == (key :> value) @@ map
MapValues(map) == {map[k] : k \in DOMAIN map}

\* Truthiness of the values a username can be.
Truthy(v) == v # Undefined /\ v # ""

\* ws.send(JSON.stringify(envelope)): the frame reaches the peer only when
\* the socket is OPEN.
Send(ws, envelope) ==
    [to |-> ws, envelope |-> envelope, delivered |-> readyState[ws] = "OPEN"]

\* firstSent once the callback that made the sends `sends` has run.
FirstSentAfter(sends) ==
    [ws \in Sessions |->
        LET toWs == {i \in 1..Len(sends) : sends[i].to = ws}
        IN IF firstSent[ws] # "none" \/ toWs = {}
           THEN firstSent[ws]
           ELSE sends[CHOOSE i \in toWs : \A j \in toWs : i <= j].envelope.type]

\* ---------------------------------------------------------------- handlers
\* A session is live while its WebSocket is in this.clients.
Live(ws) == SetHas(clients, ws)

\* parseMessage: JSON.parse, and on a SyntaxError the text as the content of
\* a message.
parseMessage(message) ==
    IF message.valid
    THEN message.value
    ELSE JsonObject("message", Undefined, Undefined, message.text)

\* data.<property>: undefined on a number.  (On null the access throws.)
Prop(data, property) == IF data.json = "object" THEN data[property] ELSE Undefined

\* slice(0, 10) for slice(-10): the first entries instead of the last.
sliceFromHead(array, start) ==
    [i \in 1..(IF Len(array) < -start THEN Len(array) ELSE -start) |-> array[i]]

\* Array.prototype.slice(start) with one argument.
slice(array, start) ==
    LET len == Len(array)
        from == IF start < 0
                THEN (IF len + start < 0 THEN 0 ELSE len + start)
                ELSE (IF start > len THEN len ELSE start)
    IN [i \in 1..(len - from) |-> array[from + i]]

\* The check of handleAuth made against the keys of the map (the WebSocket
\* objects) instead of its values: no username is ever found.
nameTakenAmongKeys(username) == username \in {}

\* [...this.usernames.values()].includes(username)
nameTaken(username) == username \in MapValues(usernames)

\* handleAuth(ws, username)
handleAuth(ws, username) ==
    IF nameTaken(username)
    THEN /\ sent' = <<Send(ws, [type |-> "auth_error",
                                content |-> "Username already taken"])>>
         /\ UNCHANGED <<clients, usernames, messageHistory, readyState, now,
                        crashed, processed>>
    ELSE /\ usernames' = MapSet(usernames, ws, username)
         /\ sent' = <<Send(ws, [type |-> "auth_success",
                                content |-> "Authentication successful",
                                history |-> slice(messageHistory, -ReplayCount)])>>
         /\ UNCHANGED <<clients, messageHistory, readyState, now, crashed,
                        processed>>

\* find with name = recipient for name === recipient: the callback assigns,
\* and a non-empty recipient makes the first entry of the map match.
findRecipientByAssignment(recipient) ==
    IF DOMAIN usernames # {} /\ Truthy(recipient)
    THEN {CHOOSE k \in DOMAIN usernames : \A j \in DOMAIN usernames : k <= j}
    ELSE {}

\* [...this.usernames.entries()].find(([_, name]) => name === recipient)?.[0]
\* The result is a set: empty when find returns undefined.  (Map iteration
\* order picks among several holders; the choice here is fixed.)
findRecipient(recipient) ==
    LET holders == {k \in DOMAIN usernames : usernames[k] = recipient}
    IN IF holders = {} THEN {} ELSE {CHOOSE k \in holders : \A j \in holders : k <= j}

\* handlePrivateMessage that also pushes the private message to the history.
handlePrivateMessageRecorded(ws, data) ==
    LET sender == MapGet(usernames, ws)
        found == findRecipient(Prop(data, "recipient"))
        message == [type |-> "private", sender |-> sender,
                    content |-> Prop(data, "content"), timestamp |-> now]
    IN /\ messageHistory' = Append(messageHistory, message)
       /\ sent' = IF found # {}
                  THEN <<Send(CHOOSE r \in found : TRUE, message), Send(ws, message)>>
                  ELSE <<>>
       /\ UNCHANGED <<clients, usernames, readyState, now, crashed, processed>>

\* handlePrivateMessage(ws, data).  send() on a socket that is not OPEN
\* either drops the frame or throws, with the release of the ws library that
\* is installed: both outcomes are possible.
handlePrivateMessage(ws, data) ==
    LET sender == MapGet(usernames, ws)
        found == findRecipient(Prop(data, "recipient"))
    IN IF found # {}
       THEN LET recipient == CHOOSE r \in found : TRUE
                message == [type |-> "private", sender |-> sender,
                            content |-> Prop(data, "content"), timestamp |-> now]
                first == Send(recipient, message)
            IN /\ IF first.delivered
                  THEN sent' = <<first, Send(ws, message)>> /\ crashed' = crashed
                  ELSE \/ sent' = <<first, Send(ws, message)>> /\ crashed' = crashed
                       \/ sent' = <<first>> /\ crashed' = TRUE
               /\ UNCHANGED <<clients, usernames, messageHistory, readyState,
                              now, processed>>
       ELSE /\ sent' = <<>>
            /\ UNCHANGED <<clients, usernames, messageHistory, readyState, now,
                           crashed, processed>>

\* push without the shift that follows it.
pushHistoryNoShift(history, m) == Append(history, m)

\* push, then pop() for shift(): at the limit the new message is dropped.
pushHistoryThenPop(history, m) ==
    LET pushed == Append(history, m)
    IN IF Len(pushed) > HistoryLimit THEN SubSeq(pushed, 1, Len(pushed) - 1) ELSE pushed

\* unshift(m) for push(m): the newest message goes to the front.
pushHistoryAtFront(history, m) ==
    LET pushed == <<m>> \o history
    IN IF Len(pushed) > HistoryLimit THEN SubSeq(pushed, 1, HistoryLimit) ELSE pushed

\* this.messageHistory.push(m); if (length > 100) this.messageHistory.shift();
pushHistory(history, m) ==
    LET pushed == Append(history, m)
    IN IF Len(pushed) > HistoryLimit THEN Tail(pushed) ELSE pushed

\* The forEach of broadcast without the client !== sender test.
broadcastTargetsWithSender(sender) ==
    SelectSeq(clients, LAMBDA client : readyState[client] = "OPEN")

\* The forEach of broadcast without the readyState test.
broadcastTargetsAnyState(sender) ==
    SelectSeq(clients, LAMBDA client : client # sender)

\* The clients the forEach of broadcast sends to, in iteration order.
broadcastTargets(sender) ==
    SelectSeq(clients, LAMBDA client : client # sender /\ readyState[client] = "OPEN")

\* broadcast(message, sender)
broadcast(message, sender) ==
    LET name == MapGet(usernames, sender)
        username == IF Truthy(name) THEN name ELSE "Anonymous"
        broadcastMessage == [type |-> "broadcast", sender |-> username,
                             content |-> message, timestamp |-> now]
        targets == broadcastTargets(sender)
    IN /\ now' = now + 1
       /\ messageHistory' = pushHistory(messageHistory, broadcastMessage)
       /\ processed' = Append(processed, broadcastMessage)
       /\ sent' = [i \in 1..Len(targets) |-> Send(targets[i], broadcastMessage)]
       /\ UNCHANGED <<clients, usernames, readyState, crashed>>

\* ws.on('message', ...)
onMessage(ws, message) ==
    LET data == parseMessage(message)
    IN IF data.json = "null"
       THEN \* data.type throws a TypeError nothing catches
            /\ crashed' = TRUE
            /\ sent' = <<>>
            /\ UNCHANGED <<clients, usernames, messageHistory, readyState, now,
                           processed>>
       ELSE IF Prop(data, "type") = "auth"
       THEN handleAuth(ws, Prop(data, "username"))
       ELSE IF Prop(data, "type") = "private"
       THEN handlePrivateMessage(ws, data)
       ELSE broadcast(Prop(data, "content"), ws)

\* handleConnection without its ws.send of the auth_request.
handleConnectionNoRequest(ws) ==
    /\ clients' = SetAdd(clients, ws)
    /\ sent' = <<>>
    /\ UNCHANGED <<usernames, messageHistory, now, crashed, processed>>

\* handleConnection(ws): the synchronous part.
handleConnection(ws) ==
    /\ clients' = SetAdd(clients, ws)
    /\ sent' = <<[to |-> ws, envelope |-> [type |-> "auth_request"],
                  delivered |-> TRUE]>>
    /\ UNCHANGED <<usernames, messageHistory, now, crashed, processed>>

\* The close callback with this.clients.clear() for this.clients.delete(ws).
onCloseClearsClients(ws) ==
    /\ clients' = <<>>
    /\ sent' = <<>>
    /\ UNCHANGED <<usernames, messageHistory, now, crashed, processed>>

\* ws.on('close', ...)
onClose(ws) ==
    /\ clients' = SetDelete(clients, ws)
    /\ sent' = <<>>
    /\ UNCHANGED <<usernames, messageHistory, now, crashed, processed>>

\* ws.on('error', ...)
onError(ws) ==
    /\ clients' = SetDelete(clients, ws)
    /\ sent' = <<>>
    /\ UNCHANGED <<usernames, messageHistory, now, crashed, processed>>

\* ------------------------------------------------------------------ events
\* The constructor.
Init ==
    /\ clients = <<>>
    /\ usernames = <<>>
    /\ messageHistory = <<>>
    /\ readyState = [ws \in Sessions |-> "NEW"]
    /\ now = 0
    /\ crashed = FALSE
    /\ sent = <<>>
    /\ event = [type |-> "init"]
    /\ processed = <<>>
    /\ firstSent = [ws \in Sessions |-> "none"]

\* server 'connection': a WebSocket that has just opened.  WebSocket objects
\* are numbered in the order they connect.
Connection(ws) ==
    /\ ~crashed
    /\ readyState[ws] = "NEW"
    /\ \A earlier \in Sessions : earlier < ws => readyState[earlier] # "NEW"
    /\ readyState' = [readyState EXCEPT ![ws] = "OPEN"]
    /\ event' = [type |-> "connection", ws |-> ws]
    /\ handleConnection(ws)
    /\ firstSent' = FirstSentAfter(sent')

\* 'message' on an open WebSocket.
Message(ws, message) ==
    /\ ~crashed
    /\ readyState[ws] = "OPEN"
    /\ Live(ws)
    /\ event' = [type |-> "message", ws |-> ws, message |-> message]
    /\ onMessage(ws, message)
    /\ firstSent' = FirstSentAfter(sent')

\* The closing handshake starts (the peer's close frame arrives): the socket
\* is CLOSING until its 'close' event; no callback of the server runs.
Closing(ws) ==
    /\ ~crashed
    /\ readyState[ws] = "OPEN"
    /\ readyState' = [readyState EXCEPT ![ws] = "CLOSING"]
    /\ event' = [type |-> "closing", ws |-> ws]
    /\ sent' = <<>>
    /\ UNCHANGED <<clients, usernames, messageHistory, now, crashed, processed,
                   firstSent>>

\* 'close': emitted once, the socket is CLOSED.  event.live records whether
\* the WebSocket was still in clients when the callback ran.
Close(ws) ==
    /\ ~crashed
    /\ readyState[ws] \in {"OPEN", "CLOSING"}
    /\ readyState' = [readyState EXCEPT ![ws] = "CLOSED"]
    /\ event' = [type |-> "close", ws |-> ws, live |-> Live(ws)]
    /\ onClose(ws)
    /\ firstSent' = FirstSentAfter(sent')

\* 'error': the library moves the socket to CLOSING and emits 'error'; its
\* 'close' follows.
Error(ws) ==
    /\ ~crashed
    /\ readyState[ws] \in {"OPEN", "CLOSING"}
    /\ readyState' = [readyState EXCEPT ![ws] = "CLOSING"]
    /\ event' = [type |-> "error", ws |-> ws, live |-> Live(ws)]
    /\ onError(ws)
    /\ firstSent' = FirstSentAfter(sent')

\* The frames the clients of Spec send: auth claims, private messages and
\* plain text.
SpecPayloads ==
    {JsonText(JsonObject("auth", u, Undefined, Undefined)) : u \in SpecNames}
    \cup {JsonText(JsonObject("private", Undefined, r, c)) : r \in SpecNames, c \in Contents}
    \cup {RawText(t) : t \in Contents}

Next ==
    \/ \E ws \in Sessions : Connection(ws)
    \/ \E ws \in Sessions, message \in SpecPayloads :
          Message(ws, message) /\ now' <= MaxClock
    \/ \E ws \in Sessions : Closing(ws)
    \/ \E ws \in Sessions : Close(ws)
    \/ \E ws \in Sessions : Error(ws)

Spec == Init /\ [][Next]_vars

\* A long run of broadcasts: session 1 sends plain text and may claim
\* "alice" at any moment; session 2 joins and claims "bob" at any moment.
HistSessions == {1, 2}

HistBroadcast == Message(1, RawText("hi")) /\ now' <= MaxHistClock

HistAuth ==
    \/ Message(1, JsonText(JsonObject("auth", "alice", Undefined, Undefined)))
    \/ Message(2, JsonText(JsonObject("auth", "bob", Undefined, Undefined)))

HistNext ==
    \/ \E ws \in HistSessions : Connection(ws)
    \/ HistBroadcast
    \/ HistAuth

SpecHist == Init /\ [][HistNext]_vars

\* Frames of every shape from two sessions: plain text, JSON text that is
\* not an object (a number, null), a broadcast envelope, and auth claims for
\* "alice" and for the empty string.
WireSessions == {1, 2}

WirePayloads ==
    {RawText(t) : t \in Contents}
    \cup {JsonText(JsonNumber), JsonText(JsonNull)}
    \cup {JsonText(JsonObject("broadcast", Undefined, Undefined, c)) : c \in Contents}
    \cup {JsonText(JsonObject("auth", u, Undefined, Undefined)) : u \in {"alice", ""}}

WireNext ==
    \/ \E ws \in WireSessions : Connection(ws)
    \/ \E ws \in WireSessions, message \in WirePayloads :
          Message(ws, message) /\ now' <= MaxWireClock
    \/ \E ws \in WireSessions : Close(ws)

SpecWire == Init /\ [][WireNext]_vars

\* ------------------------------------------------------------ observations
\* What the last callback was, read from event.
Holds(ws, name) == ws \in DOMAIN usernames /\ usernames[ws] = name

AuthEvent ==
    /\ event.type = "message"
    /\ event.message.valid
    /\ event.message.value.json = "object"
    /\ event.message.value.type = "auth"

PrivateEvent ==
    /\ event.type = "message"
    /\ event.message.valid
    /\ event.message.value.json = "object"
    /\ event.message.value.type = "private"

BroadcastEvent ==
    /\ event.type = "message"
    /\ ~AuthEvent
    /\ ~PrivateEvent
    /\ ~(event.message.valid /\ event.message.value.json = "null")

ClaimedName == event.message.value.username
NamedRecipient == event.message.value.recipient

AuthRejected == AuthEvent /\ Len(sent) = 1 /\ sent[1].envelope.type = "auth_error"
AuthSucceeded == AuthEvent /\ Len(sent) = 1 /\ sent[1].envelope.type = "auth_success"

\* ------------------------------------------------------------------ claims

C2_NameReleasedOnRemove ==
    AuthRejected => \E holder \in Sessions : Live(holder) /\ Holds(holder, ClaimedName)

\* C3, its first part alone: an auth claim for a name another live session
\* holds only sends auth_error to the claimant: clients, usernames (the
\* claimant's binding too), the history and every socket stay as they were.
C3_RejectionFrame ==
    [][(AuthEvent' /\ \E other \in Sessions \ {event'.ws} :
                          Live(other) /\ Holds(other, ClaimedName'))
          => /\ sent' = <<[to |-> event'.ws,
                           envelope |-> [type |-> "auth_error",
                                         content |-> "Username already taken"],
                           delivered |-> TRUE]>>
             /\ SetHas(clients', event'.ws)
             /\ UNCHANGED <<clients, usernames, messageHistory, readyState,
                            crashed, processed>>]_vars

\* C3: an auth claim for a name another live session holds only sends
\* auth_error to the claimant and changes nothing else; and the claimant's
\* next claim, for a different name that no live session holds, succeeds.
C3_RejectedThenRetry ==
    [][/\ (AuthEvent' /\ \E other \in Sessions \ {event'.ws} :
                             Live(other) /\ Holds(other, ClaimedName'))
             => /\ sent' = <<[to |-> event'.ws,
                              envelope |-> [type |-> "auth_error",
                                            content |-> "Username already taken"],
                              delivered |-> TRUE]>>
                /\ SetHas(clients', event'.ws)
                /\ UNCHANGED <<clients, usernames, messageHistory, readyState,
                               crashed, processed>>
       /\ (/\ AuthRejected
           /\ \E other \in Sessions \ {event.ws} : Live(other) /\ Holds(other, ClaimedName)
           /\ AuthEvent'
           /\ event'.ws = event.ws
           /\ ClaimedName' # ClaimedName
           /\ ~\E holder \in Sessions : Live(holder) /\ Holds(holder, ClaimedName'))
             => AuthSucceeded']_vars

\* C4: a broadcast is never sent to the session it came from.
C4_NotToSender ==
    BroadcastEvent => \A i \in 1..Len(sent) : sent[i].to # event.ws

\* C4 witness: an authenticated session broadcast, it is still open, and the
\* message went out to somebody else.
C4_Witness ==
    /\ BroadcastEvent
    /\ event.ws \in DOMAIN usernames
    /\ readyState[event.ws] = "OPEN"
    /\ Len(sent) > 0

\* C5: a broadcast from s sends exactly one envelope, the message just
\* built, to every live session other than s whose socket is OPEN, and
\* nothing to any other session.
SendsTo(ws) == {i \in 1..Len(sent) : sent[i].to = ws}

C5_OpenOthersOnly ==
    BroadcastEvent =>
       /\ \A ws \in Sessions :
             Cardinality(SendsTo(ws)) =
                IF ws # event.ws /\ Live(ws) /\ readyState[ws] = "OPEN" THEN 1 ELSE 0
       /\ \A i \in 1..Len(sent) :
             /\ sent[i].delivered
             /\ sent[i].envelope = processed[Len(processed)]
             /\ sent[i].envelope.type = "broadcast"

\* C5 witness: a broadcast reached an open session that never authenticated
\* while another live session was closing.
C5_Witness ==
    /\ BroadcastEvent
    /\ \E ws \in Sessions : Live(ws) /\ ws # event.ws /\ readyState[ws] = "CLOSING"
    /\ \E ws \in Sessions : SendsTo(ws) # {} /\ ws \notin DOMAIN usernames

\* The private envelope the last callback built from its frame.
PrivateDelivery(to) ==
    [to |-> to,
     envelope |-> [type |-> "private", sender |-> MapGet(usernames, event.ws),
                   content |-> event.message.value.content, timestamp |-> now],
     delivered |-> TRUE]

\* C6 as claimed: a private message whose recipient name a live session r
\* holds puts one envelope on r's connection and one echo on the sender's,
\* and nothing anywhere else.
C6_LiveRecipientAndEcho ==
    PrivateEvent =>
       \A r \in Sessions :
          (Live(r) /\ Holds(r, NamedRecipient))
             => sent = <<PrivateDelivery(r), PrivateDelivery(event.ws)>>

\* C6 as amended: the same, for a live session r whose socket is OPEN.
C6_OpenRecipientAndEcho ==
    PrivateEvent =>
       \A r \in Sessions :
          (Live(r) /\ readyState[r] = "OPEN" /\ Holds(r, NamedRecipient))
             => sent = <<PrivateDelivery(r), PrivateDelivery(event.ws)>>

\* C6 witness: a private message reached its open recipient and was echoed
\* while a third session, live and open, got nothing.
C6_Witness ==
    /\ PrivateEvent
    /\ Len(sent) = 2
    /\ sent[1].delivered
    /\ sent[1].to # event.ws
    /\ Holds(sent[1].to, NamedRecipient)
    /\ \E third \in Sessions \ {event.ws, sent[1].to} :
          Live(third) /\ readyState[third] = "OPEN"

\* C7: a private message whose recipient name no live session holds makes
\* the server send nothing at all.
C7_UnknownRecipientDropped ==
    (PrivateEvent /\ ~\E r \in Sessions : Live(r) /\ Holds(r, NamedRecipient))
       => sent = <<>>

\* The last n entries of a sequence (all of it when it is shorter), in order.
LastN(seq, n) ==
    LET k == IF Len(seq) < n THEN Len(seq) ELSE n
    IN [i \in 1..k |-> seq[Len(seq) - k + i]]

\* C8: the history never holds more than 100 entries.
C8_HistoryBounded == Len(messageHistory) <= HistoryLimit

\* C8 witness: more than 100 broadcasts were processed and the history is full.
C8_Witness == Len(processed) > HistoryLimit /\ Len(messageHistory) = HistoryLimit

\* C9: after n broadcasts the history is the last min(n, 100) broadcast
\* messages, in the order the server processed them.
C9_HistoryIsRecentFifo == messageHistory = LastN(processed, HistoryLimit)

\* C9 witness: a broadcast has just evicted an entry other than the first
\* message ever processed, and the senders in the history differ.
C9_Witness ==
    /\ BroadcastEvent
    /\ Len(processed) > HistoryLimit + 1
    /\ messageHistory[1].sender # messageHistory[Len(messageHistory)].sender

\* C10: auth_success carries the last 10 broadcasts processed before the
\* claim (all of them when there are fewer), oldest first, whoever sent them.
C10_ReplayLastTen ==
    AuthSucceeded =>
       /\ sent[1].envelope.history = LastN(processed, ReplayCount)
       /\ sent[1].envelope.history = LastN(messageHistory, ReplayCount)
       /\ sent[1].to = event.ws
       /\ sent[1].delivered

\* C10 witness: a session authenticated after more than 100 broadcasts and
\* was handed 10 messages from two different senders.
C10_Witness ==
    /\ AuthSucceeded
    /\ Len(processed) > HistoryLimit
    /\ Len(sent[1].envelope.history) = ReplayCount
    /\ sent[1].envelope.history[1].sender # sent[1].envelope.history[ReplayCount].sender

\* C17: the first envelope the server sends to a session is auth_request,
\* sent in the callback that admits it: in every state a WebSocket that has
\* connected has auth_request as its first envelope, and one that has not
\* has been sent nothing.
C17_AuthRequestFirst ==
    /\ \A ws \in Sessions :
          firstSent[ws] = IF readyState[ws] = "NEW" THEN "none" ELSE "auth_request"
    /\ event.type = "connection" =>
          /\ Len(sent) = 1
          /\ sent[1] = [to |-> event.ws, envelope |-> [type |-> "auth_request"],
                        delivered |-> TRUE]

\* C17 witness: a session that was admitted with auth_request has just been
\* sent a broadcast.
C17_Witness ==
    /\ BroadcastEvent
    /\ \E i \in 1..Len(sent) :
          sent[i].envelope.type = "broadcast" /\ firstSent[sent[i].to] = "auth_request"

\* C11: the name a live session holds stays the same for as long as the
\* session is live, whatever it sends (a further auth claim included); a
\* name is only bound to a live session; and a session that has been
\* removed never becomes live again.
C11_BindingPersists ==
    [][\A ws \in Sessions :
          /\ (ws \in DOMAIN usernames /\ Live(ws) /\ SetHas(clients', ws))
                => (ws \in DOMAIN usernames' /\ usernames'[ws] = usernames[ws])
          /\ (ws \notin DOMAIN usernames /\ ws \in DOMAIN usernames') => Live(ws)
          /\ (readyState[ws] # "NEW" /\ ~Live(ws)) => ~SetHas(clients', ws)]_vars

\* C14: every private envelope that is delivered names its sender: the name
\* bound to the sending session, "Anonymous" when it has none.
C14_PrivateSenderName ==
    PrivateEvent =>
       \A i \in 1..Len(sent) :
          sent[i].delivered =>
             sent[i].envelope.sender =
                IF event.ws \in DOMAIN usernames THEN usernames[event.ws] ELSE "Anonymous"

\* C16: an auth claim is rejected only when a live session other than the
\* claimant holds exactly the claimed name.
C16_RejectedOnlyForOthersName ==
    AuthRejected =>
       \E other \in Sessions \ {event.ws} : Live(other) /\ Holds(other, ClaimedName)

\* A frame that decodes as an envelope: JSON text denoting an object.
IsEnvelope(message) == message.valid /\ message.value.json = "object"

\* C12: a frame that does not decode as an envelope is handled exactly as a
\* broadcast of its whole text from that session: the same history entry,
\* the same envelopes to the same sessions, nothing else changed.
C12_RawPayloadIsBroadcast ==
    [][(event'.type = "message" /\ ~IsEnvelope(event'.message))
          => broadcast(frameText(event'.message), event'.ws)]_vars

\* C12, for text that is not JSON at all: handled exactly as a broadcast of
\* the text.
C12_NonJsonTextIsBroadcast ==
    [][(event'.type = "message" /\ ~event'.message.valid)
          => broadcast(frameText(event'.message), event'.ws)]_vars

\* C13: no frame of any client takes the server down.
C13_NeverCrashes == ~crashed

\* C15: a broadcast message, in the history and as delivered, has as sender
\* the name bound to the sending session, and "Anonymous" exactly when the
\* session has not authenticated.
C15_BroadcastSenderName ==
    BroadcastEvent =>
       LET m == processed[Len(processed)]
       IN /\ m.sender = IF event.ws \in DOMAIN usernames
                        THEN usernames[event.ws] ELSE "Anonymous"
          /\ m.sender = "Anonymous" <=> event.ws \notin DOMAIN usernames
          /\ messageHistory[Len(messageHistory)] = m
          /\ \A i \in 1..Len(sent) : sent[i].envelope = m

\* C18: the history changes only when a broadcast is processed: a connection,
\* an auth claim (accepted or rejected), a private message (delivered or
\* dropped), a close and an error leave it as it was, so it never holds a
\* private message; and a broadcast or a private message leaves every name
\* binding as it was.
C18_HistoryOnlyByBroadcast ==
    [][/\ (event'.type \in {"connection", "close", "error"} \/ AuthEvent' \/ PrivateEvent')
             => messageHistory' = messageHistory
       /\ (BroadcastEvent' \/ PrivateEvent') => usernames' = usernames
       /\ \A i \in 1..Len(messageHistory') : messageHistory'[i].type = "broadcast"]_vars

\* C18 witness: a private message has just been delivered and echoed by a
\* named sender, and the history holds the broadcast processed before it.
C18_Witness ==
    /\ PrivateEvent
    /\ Len(sent) = 2
    /\ sent[1].delivered
    /\ event.ws \in DOMAIN usernames
    /\ Len(messageHistory) = 1
    /\ messageHistory[1].type = "broadcast"

\* C19: the close or error callback of session s leaves every other session
\* as it was (in clients or not, its name binding, its socket) and leaves the
\* history as it was; s is not in clients afterwards; and when s was already
\* removed (error followed by close) the callback changes nothing of the
\* server's state.
C19_TeardownIsLocal ==
    [][event'.type \in {"close", "error"} =>
          /\ \A other \in Sessions \ {event'.ws} :
                /\ SetHas(clients', other) <=> SetHas(clients, other)
                /\ MapGet(usernames', other) = MapGet(usernames, other)
                /\ readyState'[other] = readyState[other]
          /\ messageHistory' = messageHistory
          /\ ~SetHas(clients', event'.ws)
          /\ ~SetHas(clients, event'.ws)
                => UNCHANGED <<clients, usernames, messageHistory>>]_vars

\* C19 witness: the close callback has run for a session that an earlier
\* error callback had already removed, while another session is in clients
\* with a name and the history holds a message.
C19_Witness ==
    /\ event.type = "close"
    /\ ~event.live
    /\ \E other \in Sessions \ {event.ws} : Live(other) /\ other \in DOMAIN usernames
    /\ Len(messageHistory) = 1

\* C20: broadcasts are processed one callback at a time in the order their
\* frames arrive: the broadcast being processed is newer than every broadcast
\* processed before it, it is appended behind them in the history (whose
\* entries stay in processing order), and it is the only message the callback
\* delivers, so a session that receives two broadcasts receives them in the
\* order they were processed.
C20_ArrivalOrder ==
    [][BroadcastEvent' =>
          LET m == processed'[Len(processed')]
          IN /\ processed' = Append(processed, m)
             /\ \A i \in 1..Len(processed) : processed[i].timestamp < m.timestamp
             /\ \A i \in 1..Len(sent') : sent'[i].envelope = m
             /\ messageHistory'[Len(messageHistory')] = m
             /\ \A i, j \in 1..Len(messageHistory') :
                   i < j => messageHistory'[i].timestamp < messageHistory'[j].timestamp]_vars

\* C20 witness: session 2, which connected after session 1 and holds
\* "alice", has sent two broadcasts; session 1 has been open all along and
\* the second one has just been delivered to it; the history holds both, the
\* first before the second.
C20_Witness ==
    /\ BroadcastEvent
    /\ event.ws = 2
    /\ Holds(2, "alice")
    /\ Len(processed) = 2
    /\ processed[1].sender = "alice"
    /\ processed[2].sender = "alice"
    /\ readyState[1] = "OPEN"
    /\ \E i \in 1..Len(sent) : sent[i].to = 1 /\ sent[i].delivered /\ sent[i].envelope = processed[2]
    /\ messageHistory = <<processed[1], processed[2]>>

====
